---- MODULE Spec2Model ----
(***************************************************************************)
(* Ballistics: the trajectory stepper of src/Ballistics/main.c and the     *)
(* launcher shot-force profile of src/Ballistics/SumCode.c.                *)
(*                                                                         *)
(* Both files compute in C doubles.  A double is modelled as a decimal     *)
(* floating-point number: a signed mantissa of seven digits and a decimal  *)
(* exponent, together with NaN, +Inf and -Inf, with the IEEE-754 rules for *)
(* the special values (x/0, 0*Inf, Inf-Inf, comparisons with NaN).  Every  *)
(* operation rounds its result to seven digits, as the hardware rounds to  *)
(* 53 bits.  Signed zero and subnormal numbers are not distinguished.      *)
(***************************************************************************)
EXTENDS Integers, Sequences, FiniteSets, TLC

(***************************************************************************)
(* The double type                                                        *)
(***************************************************************************)
\* a normal mantissa m satisfies MantMin <= |m| < MantMax
MantMin == 1000000
MantMax == 10000000

\* C executes its statements in order: After(<<v1, ..., vn>>, e) is e, with
\* the locals v1 .. vn evaluated before it
After(locals, e) == IF locals = <<>> THEN e ELSE e

Abs(n) == IF n < 0 THEN -n ELSE n
Sgn(n) == IF n < 0 THEN -1 ELSE IF n > 0 THEN 1 ELSE 0

(***************************************************************************)
(* Every function is entered through Call, which applies the body of the   *)
(* function named (AddOf for Add, add_body for add, and so on, below) to   *)
(* the tuple of arguments.  The functions use each other through the       *)
(* names declared here.                                                    *)
(***************************************************************************)
RECURSIVE Call(_, _)

\* the double nearest to m * 10^e, m and e integers
Round(m, e) == Call("Round", <<m, e>>)
\* -a, a + b, a * b, a / b
Neg(a) == Call("Neg", <<a>>)
Add(a, b) == Call("Add", <<a, b>>)
Mul(a, b) == Call("Mul", <<a, b>>)
Div(a, b) == Call("Div", <<a, b>>)
\* a < b, false when either is NaN
Lt(a, b) == Call("Lt", <<a, b>>)
\* sqrt, fmax, exp, erf, cos and sin of <math.h>
Sqrt(a) == Call("Sqrt", <<a>>)
Fmax(a, b) == Call("Fmax", <<a, b>>)
Exp(y) == Call("Exp", <<y>>)
Erf(x) == Call("Erf", <<x>>)
Cos(x) == Call("Cos", <<x>>)
Sin(x) == Call("Sin", <<x>>)
\* the narrowing of a double to a float
ToFloat(a) == Call("ToFloat", <<a>>)
ExpNeg(x) == Call("ExpNeg", <<x>>)
ErfPos(a) == Call("ErfPos", <<a>>)
\* the functions of SumCode.c and main.c
normalCDF(x) == Call("normalCDF", <<x>>)
outsideContact(currentTime, contactTime) == Call("outsideContact", <<currentTime, contactTime>>)
shotImpulse(a) == Call("shotImpulse", <<a>>)
shotSigma(a) == Call("shotSigma", <<a>>)
shotNorm(contactTime, t0, sigma) == Call("shotNorm", <<contactTime, t0, sigma>>)
shotForceCall(a) == Call("shotForceCall", <<a>>)
add(a, b) == Call("add", <<a, b>>)
scalarMultiply(v, scalar) == Call("scalarMultiply", <<v, scalar>>)
angleToVector2D(angleDeg) == Call("angleToVector2D", <<angleDeg>>)
vectorCross(a, b) == Call("vectorCross", <<a, b>>)
vectorMagnitude(v) == Call("vectorMagnitude", <<v>>)
vectorDot(a, b) == Call("vectorDot", <<a, b>>)
perpendicular2D(v) == Call("perpendicular2D", <<v>>)
newDragForce(vel, area) == Call("newDragForce", <<vel, area>>)
newMagnusForce(spin, vel, area) == Call("newMagnusForce", <<spin, vel, area>>)
newAcceleration(drag, magnus, shotF) == Call("newAcceleration", <<drag, magnus, shotF>>)
newVelocity(vel, acc) == Call("newVelocity", <<vel, acc>>)
newPosition(pos, vel) == Call("newPosition", <<pos, vel>>)
mainEffect(gArea, gSpin) == Call("mainEffect", <<gArea, gSpin>>)

RECURSIVE Pow10(_)
Pow10(k) == IF k <= 0 THEN 1 ELSE 10 * Pow10(k - 1)

NaN == [k |-> "nan", m |-> 0, e |-> 0]
PosInf == [k |-> "inf", m |-> 1, e |-> 0]
NegInf == [k |-> "inf", m |-> -1, e |-> 0]
Zero == [k |-> "fin", m |-> 0, e |-> 0]

Inf(s) == IF s < 0 THEN NegInf ELSE PosInf

IsNaN(a) == a.k = "nan"
IsInf(a) == a.k = "inf"
IsFinite(a) == a.k = "fin"
IsZero(a) == a.k = "fin" /\ a.m = 0

\* the number of low digits to drop from a mantissa a < 2^31
ExtraDigits(a) ==
    IF a < MantMax THEN 0
    ELSE IF a < 10 * MantMax THEN 1
    ELSE IF a < 100 * MantMax THEN 2 ELSE 3

RECURSIVE ScaleUp(_, _)
\* a mantissa below MantMin brought up to seven digits
ScaleUp(a, e) == IF a >= MantMin THEN <<a, e>> ELSE ScaleUp(a * 10, e - 1)

\* the range of a double: beyond DBL_MAX the result is an infinity, below
\* the smallest subnormal it is zero
InRange(s, a, e) ==
    IF e > 302 \/ (e = 302 /\ a > 1797693) THEN Inf(s)
    ELSE IF e < -330 \/ (e = -330 /\ a < 2470328) THEN Zero
    ELSE [k |-> "fin", m |-> s * a, e |-> e]

\* the double nearest to m * 10^e (round half away from zero)
RoundOf(m, e) ==
    IF m = 0 THEN Zero
    ELSE LET a == Abs(m)
             d == ExtraDigits(a)
             p == Pow10(d)
             r == IF d = 0 THEN a ELSE (a + p \div 2) \div p
         IN  IF r >= MantMax THEN InRange(Sgn(m), r \div 10, e + d + 1)
             ELSE IF r >= MantMin THEN InRange(Sgn(m), r, e + d)
             ELSE LET u == ScaleUp(r, e) IN InRange(Sgn(m), u[1], u[2])


\* a decimal literal of the source: Dec(981, -2) is 9.81
Dec(m, e) == Round(m, e)

NegOf(a) == IF a.k = "nan" THEN NaN ELSE [a EXCEPT !.m = -a.m]

\* x rounded to an integer multiple of 1/q, for the alignment of an addend
DivRound(x, q) == Sgn(x) * ((Abs(x) + q \div 2) \div q)

\* a + b
AddOf(a, b) ==
    IF IsNaN(a) \/ IsNaN(b) THEN NaN
    ELSE IF IsInf(a) /\ IsInf(b) THEN (IF a.m = b.m THEN a ELSE NaN)
    ELSE IF IsInf(a) THEN a
    ELSE IF IsInf(b) THEN b
    ELSE IF a.m = 0 THEN b
    ELSE IF b.m = 0 THEN a
    ELSE LET hi == IF a.e >= b.e THEN a ELSE b
             lo == IF a.e >= b.e THEN b ELSE a
             diff == hi.e - lo.e
         IN  IF diff > 9 THEN hi
             ELSE IF diff <= 2
                  THEN Round(hi.m * 100 + lo.m * Pow10(2 - diff), hi.e - 2)
                  ELSE Round(hi.m * 100 + DivRound(lo.m, Pow10(diff - 2)), hi.e - 2)


\* a - b
Sub(a, b) == Add(a, Neg(b))

\* a * b: the product of two seven-digit mantissas, from four partial
\* products, to nine digits before rounding
MulOf(a, b) ==
    IF IsNaN(a) \/ IsNaN(b) THEN NaN
    ELSE IF IsInf(a) \/ IsInf(b)
         THEN (IF a.m = 0 \/ b.m = 0 THEN NaN ELSE Inf(Sgn(a.m) * Sgn(b.m)))
    ELSE IF a.m = 0 \/ b.m = 0 THEN Zero
    ELSE LET x == Abs(a.m)
             y == Abs(b.m)
             x1 == x \div 10000
             x0 == x % 10000
             y1 == y \div 10000
             y0 == y % 10000
             mid == x1 * y0 + x0 * y1
             low == x0 * y0
             q == x1 * y1 * 1000 + (mid + low \div 10000) \div 10
         IN  Round(Sgn(a.m) * Sgn(b.m) * q, a.e + b.e + 5)


RECURSIVE LongDiv(_, _, _, _)
\* n further pairs of digits of the quotient r / y, appended to q
LongDiv(q, r, y, n) ==
    IF n = 0 THEN q
    ELSE LongDiv(q * 100 + (r * 100) \div y, (r * 100) % y, y, n - 1)

\* a / b
DivOf(a, b) ==
    IF IsNaN(a) \/ IsNaN(b) THEN NaN
    ELSE IF IsInf(a) THEN (IF IsInf(b) THEN NaN
                           ELSE Inf(a.m * (IF b.m < 0 THEN -1 ELSE 1)))
    ELSE IF IsInf(b) THEN Zero
    ELSE IF b.m = 0 THEN (IF a.m = 0 THEN NaN ELSE Inf(Sgn(a.m)))
    ELSE IF a.m = 0 THEN Zero
    ELSE LET x == Abs(a.m)
             y == Abs(b.m)
             q == LongDiv(x \div y, x % y, y, 4)
         IN  Round(Sgn(a.m) * Sgn(b.m) * q, a.e - b.e - 8)


\* a < b, false when either is NaN
LtOf(a, b) ==
    IF IsNaN(a) \/ IsNaN(b) THEN FALSE
    ELSE IF IsInf(a) THEN a.m < 0 /\ ~(IsInf(b) /\ b.m < 0)
    ELSE IF IsInf(b) THEN b.m > 0
    ELSE Sub(a, b).m < 0


\* a > b, false when either is NaN
Gt(a, b) == Lt(b, a)

\* a == b as C compares doubles: NaN equals nothing
Eq(a, b) ==
    /\ ~IsNaN(a)
    /\ ~IsNaN(b)
    /\ a = b

RECURSIVE IntRoot(_, _, _)
\* the largest r in lo..hi with r * r <= n (lo * lo <= n is given)
IntRoot(n, lo, hi) ==
    IF lo >= hi THEN lo
    ELSE LET mid == (lo + hi + 1) \div 2
         IN  IF mid * mid <= n THEN IntRoot(n, mid, hi)
             ELSE IntRoot(n, lo, mid - 1)

\* n steps of x <- (x + a / x) / 2
RECURSIVE Newton(_, _, _)
Newton(a, x, n) ==
    IF n = 0 \/ ~IsFinite(x) THEN x
    ELSE Newton(a, Mul(Dec(5, -1), Add(x, Div(a, x))), n - 1)

\* sqrt(a): exact when the root has at most four digits, otherwise within
\* one unit of the seventh digit
SqrtOf(a) ==
    IF IsNaN(a) THEN NaN
    ELSE IF IsInf(a) THEN (IF a.m > 0 THEN PosInf ELSE NaN)
    ELSE IF a.m < 0 THEN NaN
    ELSE IF a.m = 0 THEN Zero
    ELSE LET odd == a.e % 2 # 0
             n == IF odd THEN a.m * 10 ELSE a.m
             e2 == IF odd THEN a.e - 1 ELSE a.e
             r == IntRoot(n, 1, 10000)
             x0 == Round(r, e2 \div 2)
         IN  IF r * r = n THEN x0 ELSE Newton(a, x0, 3)


\* fmax(a, b): the larger; a NaN argument is ignored in favour of the other
FmaxOf(a, b) ==
    IF IsNaN(a) THEN b
    ELSE IF IsNaN(b) THEN a
    ELSE IF Lt(a, b) THEN b ELSE a

\* the integer n as a double (|n| < 2^31)
FromInt(n) == Round(n, 0)

\* acc + the terms k.. of a sine or cosine series; x2 is -x*x and j the
\* last factor of term's factorial
RECURSIVE TrigSeries(_, _, _, _, _)
TrigSeries(acc, term, x2, j, k) ==
    IF k = 0 \/ ~IsFinite(acc) \/ IsZero(term) THEN acc
    ELSE LET next == Div(Mul(term, x2), FromInt((j + 1) * (j + 2)))
         IN  TrigSeries(Add(acc, next), next, x2, j + 2, k - 1)

\* cos(x) and sin(x) of <math.h>, by their series (|x| <= pi)
CosOf(x) ==
    IF ~IsFinite(x) THEN NaN
    ELSE TrigSeries(Dec(1, 0), Dec(1, 0), Neg(Mul(x, x)), 0, 10)

SinOf(x) ==
    IF ~IsFinite(x) THEN NaN
    ELSE TrigSeries(x, x, Neg(Mul(x, x)), 1, 10)

\* the narrowing of a double argument to a float parameter: beyond FLT_MAX
\* an infinity, below the smallest float zero.  A float carries 24 bits,
\* more than the seven digits modelled, so a value in range is kept.
ToFloatOf(a) ==
    IF ~IsFinite(a) \/ a.m = 0 THEN a
    ELSE IF a.e > 32 \/ (a.e = 32 /\ Abs(a.m) > 3402823) THEN Inf(a.m)
    ELSE IF a.e < -52 THEN Zero
    ELSE a

(***************************************************************************)
(* <math.h>: exp and erf, to the seven digits of the model                  *)
(***************************************************************************)
One == Dec(1, 0)
Half == Dec(5, -1)

\* acc * b^n by squaring
RECURSIVE PowInt(_, _, _)
PowInt(acc, b, n) ==
    IF n = 0 \/ ~IsFinite(acc) \/ ~IsFinite(b) THEN acc
    ELSE IF n % 2 = 0 THEN PowInt(acc, Mul(b, b), n \div 2)
    ELSE PowInt(Mul(acc, b), Mul(b, b), n \div 2)

\* the integer part of a double 0 <= x < 2^31
Floor(x) ==
    IF x.e >= 0 THEN x.m * Pow10(x.e)
    ELSE IF x.e < -6 THEN 0
    ELSE x.m \div Pow10(-x.e)

\* acc + the n terms after term = x^k / k! of the exponential series
RECURSIVE ExpSeries(_, _, _, _, _)
ExpSeries(acc, term, x, k, n) ==
    IF n = 0 \/ ~IsFinite(acc) \/ IsZero(term) THEN acc
    ELSE LET next == Div(Mul(term, x), FromInt(k + 1))
         IN  ExpSeries(Add(acc, next), next, x, k + 1, n - 1)

\* exp(-x) for a finite x >= 0: e^-n * exp(-f) with n the integer part;
\* below the smallest double the result is zero
ExpNegOf(x) ==
    IF Gt(x, Dec(746, 0)) THEN Zero
    ELSE LET n == Floor(x)
             f == Sub(x, FromInt(n))
             s == ExpSeries(One, One, Neg(f), 0, 12)
         IN  After(<<s>>, PowInt(s, Dec(3678794, -7), n))


\* exp(y)
ExpOf(y) ==
    IF IsNaN(y) THEN NaN
    ELSE IF IsInf(y) THEN (IF y.m > 0 THEN PosInf ELSE Zero)
    ELSE IF y.m <= 0 THEN ExpNeg(Neg(y))
    ELSE IF Gt(y, Dec(710, 0)) THEN PosInf
    ELSE Div(One, ExpNeg(y))

\* acc + the sum over k = n.. of p_k / (2k+1), p_k = (-1)^k x^(2k+1) / k!
RECURSIVE ErfSeries(_, _, _, _, _)
ErfSeries(acc, p, x2, n, left) ==
    IF left = 0 \/ ~IsFinite(acc) \/ IsZero(p) THEN acc
    ELSE ErfSeries(Add(acc, Div(p, FromInt(2 * n + 1))),
                   Div(Mul(p, x2), FromInt(n + 1)), x2, n + 1, left - 1)

\* the polynomial with the coefficients c[1..i] and no constant term, at t,
\* above the part acc already summed
RECURSIVE Horner(_, _, _, _)
Horner(acc, t, c, i) ==
    IF i = 0 \/ ~IsFinite(acc) THEN acc
    ELSE Horner(Mul(t, Add(c[i], acc)), t, c, i - 1)

\* erf(a) for a finite a >= 0: the Maclaurin series below 1/2, above it the
\* rational approximation 7.1.26 of Abramowitz and Stegun (error 1.5e-7)
ErfPosOf(a) ==
    IF Lt(a, Half)
    THEN Mul(Dec(1128379, -6), ErfSeries(Zero, a, Neg(Mul(a, a)), 0, 9))
    ELSE LET t == Div(One, Add(One, Mul(Dec(3275911, -7), a)))
             c == <<Dec(2548296, -7), Dec(-2844967, -7), Dec(1421414, -6),
                    Dec(-1453152, -6), Dec(1061405, -6)>>
             poly == Horner(Zero, t, c, Len(c))
             e == ExpNeg(Mul(a, a))
         IN  After(<<t, poly, e>>, Sub(One, Mul(poly, e)))

\* erf(x)
ErfOf(x) ==
    IF IsNaN(x) THEN NaN
    ELSE IF IsInf(x) THEN (IF x.m > 0 THEN One ELSE Neg(One))
    ELSE IF x.m < 0 THEN Neg(ErfPos(Neg(x)))
    ELSE ErfPos(x)

(***************************************************************************)
(* SumCode.c                                                               *)
(***************************************************************************)
SIGMA_MIN == Dec(1, -6)
M_PI == Dec(3141593, -6)

normalCDF_body(x) ==
    LET e == Erf(Div(x, Sqrt(Dec(2, 0))))
    IN  After(<<e>>, Mul(Half, Add(One, e)))

\* a faulty guard, which forgets the times before the contact
outsideContactLate(currentTime, contactTime) == Gt(currentTime, contactTime)

\* the guard of the early return: currentTime < 0.0 || currentTime > contactTime
outsideContact_body(currentTime, contactTime) ==
    \/ Lt(currentTime, Zero)
    \/ Gt(currentTime, contactTime)

\* impulse: what the launcher is to deliver in total
shotImpulse_body(a) ==
    LET omega_b == Div(Mul(Mul(Dec(2, 0), M_PI), a.shooterRPM), Dec(60, 0))
        v_rim_bot == Mul(omega_b, a.bottomWheelRadius)
        v_rim_top == Mul(Mul(omega_b, a.gearRatio), a.topWheelRadius)
        v_muzzle == Div(Add(v_rim_bot, v_rim_top), Dec(2, 0))
    IN  After(<<omega_b, v_rim_bot, v_rim_top, v_muzzle>>,
              Mul(Mul(a.transferEfficiency, a.ballMass), v_muzzle))

shotSigma_body(a) == Fmax(Mul(a.compressionRatio, a.compression), SIGMA_MIN)

\* a faulty norm, which forgets the mass of the Gaussian before the window
shotNormUpper(contactTime, t0, sigma) ==
    normalCDF(Div(Sub(contactTime, t0), sigma))

\* norm: the mass of the Gaussian inside the contact window
shotNorm_body(contactTime, t0, sigma) ==
    LET cdf_lo == normalCDF(Div(Sub(Zero, t0), sigma))
        cdf_hi == normalCDF(Div(Sub(contactTime, t0), sigma))
    IN  After(<<cdf_lo, cdf_hi>>, Sub(cdf_hi, cdf_lo))

\* one call of calculateShotForce with the arguments a: the value returned
\* and the return statement that produced it
shotForceCall_body(a) ==
    IF outsideContact(a.currentTime, a.contactTime)
    THEN [ret |-> Zero, path |-> "outside"]
    ELSE LET impulse == shotImpulse(a)
             t0 == Div(a.contactTime, Dec(2, 0))
             sigma == shotSigma(a)
             norm == shotNorm(a.contactTime, t0, sigma)
             z == Div(Sub(a.currentTime, t0), sigma)
             exponent == Mul(Dec(-5, -1), Mul(z, z))
             gaussian ==
                 Mul(Div(One, Mul(sigma, Sqrt(Mul(Dec(2, 0), M_PI)))),
                     Exp(exponent))
         IN  After(<<impulse, t0, sigma, norm>>,
                   IF Lt(norm, Dec(1, -12))
                   THEN [ret |-> Zero, path |-> "degenerate"]
                   ELSE After(<<exponent, gaussian>>,
                              [ret |-> Mul(Div(impulse, norm), gaussian),
                               path |-> "normal"]))

calculateShotForce(a) == shotForceCall(a).ret

(***************************************************************************)
(* main.c: vectors                                                         *)
(***************************************************************************)
createVector(x, y, z) == [x |-> x, y |-> y, z |-> z]

add_body(a, b) == createVector(Add(a.x, b.x), Add(a.y, b.y), Add(a.z, b.z))

\* the scalar parameter is a float
scalarMultiply_body(v, scalar) ==
    LET f == ToFloat(scalar)
    IN  createVector(Mul(v.x, f), Mul(v.y, f), Mul(v.z, f))

angleToVector2D_body(angleDeg) ==
    LET angleRad == Mul(angleDeg, Div(Dec(314159, -5), Dec(180, 0)))
    IN  createVector(Cos(angleRad), Sin(angleRad), Zero)

vectorCross_body(a, b) ==
    createVector(Sub(Mul(a.y, b.z), Mul(a.z, b.y)),
                 Sub(Mul(a.z, b.x), Mul(a.x, b.z)),
                 Sub(Mul(a.x, b.y), Mul(a.y, b.x)))

vectorMagnitude_body(v) ==
    Sqrt(Add(Add(Mul(v.x, v.x), Mul(v.y, v.y)), Mul(v.z, v.z)))

vectorDot_body(a, b) == Add(Add(Mul(a.x, b.x), Mul(a.y, b.y)), Mul(a.z, b.z))

perpendicular2D_body(v) == createVector(Neg(v.y), v.x, Zero)

ZeroVector == createVector(Zero, Zero, Zero)

(***************************************************************************)
(* main.c: the globals.  Those that no function assigns and that have an   *)
(* initializer are definitions; ballArea and spinVector, which have none,  *)
(* and the force and state vectors are variables.                          *)
(***************************************************************************)
gravityForce == createVector(Zero, Zero, Dec(-981, -2))
timeStep == Dec(1, -2)
turretAngle == Zero
ballMass == Dec(45, -3)
ballRadius == Dec(2135, -5)
airDensity == Dec(1225, -3)
dragCoefficient == Dec(47, -2)
magnusCoefficient == Dec(1, -1)

(***************************************************************************)
(* main.c: the force and state updates                                     *)
(***************************************************************************)
\* updateDragForce: the value stored in dragForce
newDragForce_body(vel, area) ==
    LET speed == vectorMagnitude(vel)
        dragMagnitude ==
            Mul(Mul(Mul(Mul(Mul(Dec(5, -1), airDensity), speed), speed),
                    dragCoefficient), area)
        dragDirection == scalarMultiply(vel, Div(Dec(-1, 0), speed))
    IN  scalarMultiply(dragDirection, dragMagnitude)

\* updateMagnusForce: the value stored in magnusForce
newMagnusForce_body(spin, vel, area) ==
    LET speed == vectorMagnitude(vel)
        magnusMagnitude ==
            Mul(Mul(Mul(Mul(Mul(Dec(5, -1), airDensity), speed), area),
                    ballRadius), magnusCoefficient)
        magnusDirection == vectorCross(spin, vel)
    IN  scalarMultiply(magnusDirection, magnusMagnitude)

\* a faulty updateShotForce, which applies the force of the launcher 10 ms
\* into a contact of 20 ms along x
wiredShotForce ==
    createVector(
        calculateShotForce(
            [transferEfficiency |-> Dec(8, -1), ballMass |-> ballMass,
             shooterRPM |-> Dec(4000, 0), bottomWheelRadius |-> Dec(5, -2),
             gearRatio |-> One, topWheelRadius |-> Dec(5, -2),
             compression |-> Dec(1, -2), compressionRatio |-> Half,
             contactTime |-> Dec(2, -2), currentTime |-> Dec(1, -2)]),
        Zero, Zero)

\* updateShotForce: the value stored in shotForce
newShotForce == createVector(Zero, Zero, Zero)

\* updateAcceleration: the value stored in acceleration
newAcceleration_body(drag, magnus, shotF) ==
    LET totalForce == add(add(gravityForce, drag), add(magnus, shotF))
    IN  scalarMultiply(totalForce, Div(Dec(1, 0), ballMass))

\* updateVelocity: the value stored in velocity
newVelocity_body(vel, acc) == add(vel, scalarMultiply(acc, timeStep))

\* updatePosition: the value stored in position
newPosition_body(pos, vel) == add(pos, scalarMultiply(vel, timeStep))

\* printf("%f"): the value in units of 10^-6, or the text of a special value
FormatF(a) ==
    IF IsNaN(a) THEN [txt |-> "nan", u |-> 0]
    ELSE IF IsInf(a) THEN [txt |-> IF a.m < 0 THEN "-inf" ELSE "inf", u |-> 0]
    ELSE IF a.e >= -6 THEN [txt |-> "num", u |-> a.m * Pow10(a.e + 6)]
    ELSE [txt |-> "num", u |-> DivRound(a.m, Pow10(-(a.e + 6)))]

printVector(v) == <<FormatF(v.x), FormatF(v.y), FormatF(v.z)>>

\* a faulty main, whose two assignments reach the globals
mainAssignsGlobals(gArea, gSpin) ==
    LET area == Mul(Mul(Dec(314159, -5), ballRadius), ballRadius)
        spin == perpendicular2D(angleToVector2D(turretAngle))
        v3 == add(createVector(Dec(1, 0), Dec(2, 0), Dec(3, 0)),
                  createVector(Dec(4, 0), Dec(5, 0), Dec(6, 0)))
    IN  [ballArea |-> area, spinVector |-> spin,
         frame |-> [ran |-> TRUE, ballArea |-> area, spinVector |-> spin,
                    v3 |-> v3],
         printed |-> printVector(v3)]

\* what main leaves: its locals and the line printed.  ballArea and
\* spinVector here are locals of main that shadow the globals.
mainEffect_body(gArea, gSpin) ==
    LET localArea == Mul(Mul(Dec(314159, -5), ballRadius), ballRadius)
        localSpin == perpendicular2D(angleToVector2D(turretAngle))
        v1 == createVector(Dec(1, 0), Dec(2, 0), Dec(3, 0))
        v2 == createVector(Dec(4, 0), Dec(5, 0), Dec(6, 0))
        v3 == add(v1, v2)
    IN  [ballArea |-> gArea, spinVector |-> gSpin,
         frame |-> [ran |-> TRUE, ballArea |-> localArea,
                    spinVector |-> localSpin, v3 |-> v3],
         printed |-> printVector(v3)]

(***************************************************************************)
(* The call                                                                *)
(***************************************************************************)
\* the body of the function f applied to the arguments x.  C evaluates the
\* arguments before the call; the test of x, never true, makes Call do so.
Call(f, x) ==
    IF x = <<>> THEN Zero
    ELSE CASE f = "Round" -> RoundOf(x[1], x[2])
            [] f = "Neg" -> NegOf(x[1])
            [] f = "Add" -> AddOf(x[1], x[2])
            [] f = "Mul" -> MulOf(x[1], x[2])
            [] f = "Div" -> DivOf(x[1], x[2])
            [] f = "Lt" -> LtOf(x[1], x[2])
            [] f = "Sqrt" -> SqrtOf(x[1])
            [] f = "Fmax" -> FmaxOf(x[1], x[2])
            [] f = "Exp" -> ExpOf(x[1])
            [] f = "Erf" -> ErfOf(x[1])
            [] f = "Cos" -> CosOf(x[1])
            [] f = "Sin" -> SinOf(x[1])
            [] f = "ToFloat" -> ToFloatOf(x[1])
            [] f = "ExpNeg" -> ExpNegOf(x[1])
            [] f = "ErfPos" -> ErfPosOf(x[1])
            [] f = "normalCDF" -> normalCDF_body(x[1])
            [] f = "outsideContact" -> outsideContact_body(x[1], x[2])
            [] f = "shotImpulse" -> shotImpulse_body(x[1])
            [] f = "shotSigma" -> shotSigma_body(x[1])
            [] f = "shotNorm" -> shotNorm_body(x[1], x[2], x[3])
            [] f = "shotForceCall" -> shotForceCall_body(x[1])
            [] f = "add" -> add_body(x[1], x[2])
            [] f = "scalarMultiply" -> scalarMultiply_body(x[1], x[2])
            [] f = "angleToVector2D" -> angleToVector2D_body(x[1])
            [] f = "vectorCross" -> vectorCross_body(x[1], x[2])
            [] f = "vectorMagnitude" -> vectorMagnitude_body(x[1])
            [] f = "vectorDot" -> vectorDot_body(x[1], x[2])
            [] f = "perpendicular2D" -> perpendicular2D_body(x[1])
            [] f = "newDragForce" -> newDragForce_body(x[1], x[2])
            [] f = "newMagnusForce" -> newMagnusForce_body(x[1], x[2], x[3])
            [] f = "newAcceleration" -> newAcceleration_body(x[1], x[2], x[3])
            [] f = "newVelocity" -> newVelocity_body(x[1], x[2])
            [] f = "newPosition" -> newPosition_body(x[1], x[2])
            [] f = "mainEffect" -> mainEffect_body(x[1], x[2])

(***************************************************************************)
(* The state                                                               *)
(***************************************************************************)
\* the longest sequence of calls explored
MaxCalls == 6

VARIABLES
    magnusForce, dragForce, shotForce,   \* main.c:11-13
    position, velocity, acceleration,    \* main.c:15-17
    ballArea, spinVector,                \* main.c:19-20, zero-initialized
    frame,                               \* the locals of main, once it ran
    out,                                 \* what printVector wrote
    hist,                                \* history of the calls made
    shot                                 \* SumCode.c: the last call and result

mainVars == <<magnusForce, dragForce, shotForce, position, velocity,
              acceleration, ballArea, spinVector, frame, out, hist>>
vars == <<mainVars, shot>>

(***************************************************************************)
(* History.  main.c has no step function and no clock: the four updates    *)
(* are separate functions a driver calls.  hist records, for the           *)
(* properties, the number of calls made, the names of the last three, the   *)
(* position and velocity held before the last updateVelocity, whether the  *)
(* last call completed an integration step (a run of updateForces,         *)
(* updateAcceleration, updateVelocity, updatePosition in that order), and  *)
(* the number of steps completed.                                          *)
(***************************************************************************)
StepPrefix == <<"updateForces", "updateAcceleration", "updateVelocity">>
Window == Len(StepPrefix)

Last(seq, n) ==
    IF Len(seq) <= n THEN seq ELSE SubSeq(seq, Len(seq) - n + 1, Len(seq))

EndsWith(seq, tail) ==
    /\ Len(seq) >= Len(tail)
    /\ Last(seq, Len(tail)) = tail

Logged(op) ==
    [hist EXCEPT
        !.calls = @ + 1,
        !.recent = Last(Append(@, op), Window),
        !.before = IF op = "updateVelocity"
                   THEN [position |-> position, velocity |-> velocity]
                   ELSE @,
        !.stepDone = op = "updatePosition" /\ EndsWith(hist.recent, StepPrefix),
        !.steps = IF op = "updatePosition" /\ EndsWith(hist.recent, StepPrefix)
                  THEN @ + 1 ELSE @]

(***************************************************************************)
(* main.c: one action per function                                         *)
(***************************************************************************)
Init ==
    /\ magnusForce = ZeroVector
    /\ dragForce = ZeroVector
    /\ shotForce = ZeroVector
    /\ position = ZeroVector
    /\ velocity = ZeroVector
    /\ acceleration = ZeroVector
    /\ ballArea = Zero
    /\ spinVector = ZeroVector
    /\ frame = [ran |-> FALSE, ballArea |-> Zero, spinVector |-> ZeroVector,
                v3 |-> ZeroVector]
    /\ out = <<>>
    /\ hist = [calls |-> 0, recent |-> <<>>, steps |-> 0, stepDone |-> FALSE,
               before |-> [position |-> ZeroVector, velocity |-> ZeroVector]]
    /\ shot = [path |-> "none"]

updateDragForce ==
    /\ hist.calls < MaxCalls
    /\ dragForce' = newDragForce(velocity, ballArea)
    /\ hist' = Logged("updateDragForce")
    /\ UNCHANGED <<magnusForce, shotForce, position, velocity, acceleration,
                   ballArea, spinVector, frame, out, shot>>

updateMagnusForce ==
    /\ hist.calls < MaxCalls
    /\ magnusForce' = newMagnusForce(spinVector, velocity, ballArea)
    /\ hist' = Logged("updateMagnusForce")
    /\ UNCHANGED <<dragForce, shotForce, position, velocity, acceleration,
                   ballArea, spinVector, frame, out, shot>>

updateShotForce ==
    /\ hist.calls < MaxCalls
    /\ shotForce' = newShotForce
    /\ hist' = Logged("updateShotForce")
    /\ UNCHANGED <<magnusForce, dragForce, position, velocity, acceleration,
                   ballArea, spinVector, frame, out, shot>>

\* updateDragForce(); updateMagnusForce(); updateShotForce();
updateForces ==
    /\ hist.calls < MaxCalls
    /\ dragForce' = newDragForce(velocity, ballArea)
    /\ magnusForce' = newMagnusForce(spinVector, velocity, ballArea)
    /\ shotForce' = newShotForce
    /\ hist' = Logged("updateForces")
    /\ UNCHANGED <<position, velocity, acceleration, ballArea, spinVector,
                   frame, out, shot>>

updateAcceleration ==
    /\ hist.calls < MaxCalls
    /\ acceleration' = newAcceleration(dragForce, magnusForce, shotForce)
    /\ hist' = Logged("updateAcceleration")
    /\ UNCHANGED <<magnusForce, dragForce, shotForce, position, velocity,
                   ballArea, spinVector, frame, out, shot>>

updateVelocity ==
    /\ hist.calls < MaxCalls
    /\ velocity' = newVelocity(velocity, acceleration)
    /\ hist' = Logged("updateVelocity")
    /\ UNCHANGED <<magnusForce, dragForce, shotForce, position, acceleration,
                   ballArea, spinVector, frame, out, shot>>

updatePosition ==
    /\ hist.calls < MaxCalls
    /\ position' = newPosition(position, velocity)
    /\ hist' = Logged("updatePosition")
    /\ UNCHANGED <<magnusForce, dragForce, shotForce, velocity, acceleration,
                   ballArea, spinVector, frame, out, shot>>

main ==
    /\ ~frame.ran
    /\ LET r == mainEffect(ballArea, spinVector)
       IN  /\ ballArea' = r.ballArea
           /\ spinVector' = r.spinVector
           /\ frame' = r.frame
           /\ out' = Append(out, r.printed)
    /\ UNCHANGED <<magnusForce, dragForce, shotForce, position, velocity,
                   acceleration, hist, shot>>

Next ==
    \/ updateDragForce
    \/ updateMagnusForce
    \/ updateShotForce
    \/ updateForces
    \/ updateAcceleration
    \/ updateVelocity
    \/ updatePosition
    \/ main

Spec == Init /\ [][Next]_vars

(***************************************************************************)
(* SumCode.c as a program of its own: calculateShotForce called with       *)
(* arguments from bounded sets.  The sets hold the scenario of the         *)
(* specification (4000 rpm, 5 cm wheels, 20 ms contact), the values a      *)
(* caller must not pass (zero or negative mass and contact time) and       *)
(* query times before, inside, on the edges of and after the window.       *)
(***************************************************************************)
Efficiencies == {Dec(8, -1)}
Masses == {Dec(45, -3), Zero, Dec(-45, -3)}
RPMs == {Zero, Dec(4000, 0)}
WheelRadii == {Dec(5, -2)}
GearRatios == {One}
Compressions == {Zero, Dec(1, -2), Dec(2, -2), Dec(2, -1)}
CompressionRatios == {Half}
ContactTimes == {Dec(2, -2), Zero, Dec(-2, -2)}
QueryTimes == {Dec(-1, -2), Zero, Dec(5, -3), Dec(1, -2), Dec(2, -2),
               Dec(3, -2)}

ShotArgs ==
    [transferEfficiency : Efficiencies, ballMass : Masses, shooterRPM : RPMs,
     bottomWheelRadius : WheelRadii, gearRatio : GearRatios,
     topWheelRadius : WheelRadii, compression : Compressions,
     compressionRatio : CompressionRatios, contactTime : ContactTimes,
     currentTime : QueryTimes]

\* one run is one call
callShotForce ==
    /\ shot.path = "none"
    /\ \E a \in ShotArgs :
          LET r == shotForceCall(a)
          IN  shot' = [path |-> r.path, ret |-> r.ret, args |-> a]
    /\ UNCHANGED mainVars

\* int main() { return 0; }
sumMain == UNCHANGED vars

ShotNext ==
    \/ callShotForce
    \/ sumMain

ShotSpec == Init /\ [][ShotNext]_vars

(***************************************************************************)
(* Properties of main.c, checked under Spec                                *)
(***************************************************************************)
LastCall == IF hist.recent = <<>> THEN "none" ELSE hist.recent[Len(hist.recent)]

IsFiniteVector(v) == IsFinite(v.x) /\ IsFinite(v.y) /\ IsFinite(v.z)

\* a velocity a ball in flight can have: finite and not at rest
Moving(v) == IsFiniteVector(v) /\ v # ZeroVector

\* C2: the drag force stored for a ball at rest is the zero vector, and the
\* state holds no NaN or Inf component after it.  The code divides by the
\* speed without a test, so the formula is violated.
C2_DragAtRestIsZero ==
    (LastCall \in {"updateDragForce", "updateForces"} /\ velocity = ZeroVector)
        => /\ dragForce = ZeroVector
           /\ IsFiniteVector(acceleration)
           /\ IsFiniteVector(position)

\* C3: from rest and with the three forces zero, updateAcceleration followed
\* by updateVelocity leaves the velocity (0, 0, -0.0981): gravity times
\* timeStep, whatever ballMass is.  The code divides gravity by ballMass, so
\* the formula is violated.
C3_GravityStepFromRest ==
    (/\ EndsWith(hist.recent, <<"updateAcceleration", "updateVelocity">>)
     /\ hist.before.velocity = ZeroVector
     /\ dragForce = ZeroVector
     /\ magnusForce = ZeroVector
     /\ shotForce = ZeroVector)
        => velocity = createVector(Zero, Zero, Dec(-981, -4))

\* C6: with the spin vector zero, or the velocity zero, the Magnus force
\* stored is the zero vector, for every velocity the program can hold.  The
\* NaN velocity that the drag at rest produces makes the formula violated.
C6_MagnusZeroWithoutSpin ==
    (/\ LastCall \in {"updateMagnusForce", "updateForces"}
     /\ (spinVector = ZeroVector \/ velocity = ZeroVector))
        => magnusForce = ZeroVector

\* the numbers held in the variables that some function assigns
StateScalars ==
    UNION {{v.x, v.y, v.z} :
              v \in {magnusForce, dragForce, shotForce, position, velocity,
                     acceleration}}

\* C7: the state carries an elapsed time, which after N integration steps
\* is N * timeStep.  The program has no such variable, so the formula is
\* violated as soon as a step is completed.
C7_ElapsedTimeTracksSteps ==
    \E elapsedTime \in StateScalars :
        Eq(elapsedTime, Mul(FromInt(hist.steps), timeStep))

\* C8: an integration step from rest (updateForces, updateAcceleration,
\* updateVelocity, updatePosition) leaves position.z equal to the updated
\* velocity.z times timeStep, a number that is not 0.  The step from rest
\* stores NaN in the drag force and so in the position, so the formula is
\* violated.
C8_StepFromRestMovesWithNewVelocity ==
    (/\ hist.stepDone
     /\ hist.before.velocity = ZeroVector
     /\ hist.before.position = ZeroVector)
        => /\ Eq(position.z, Mul(velocity.z, timeStep))
           /\ ~IsZero(position.z)

\* C9: the shot force is the zero vector in every state, and the
\* acceleration that updateAcceleration stores is gravity + drag + Magnus
\* over ballMass, with no contribution of the launcher.
C9_ShotForceIsStub ==
    /\ shotForce = ZeroVector
    /\ LastCall = "updateAcceleration"
           => acceleration =
                  scalarMultiply(add(add(gravityForce, dragForce), magnusForce),
                                 Div(One, ballMass))

\* updateForces with the ball in flight, then updateAcceleration
C9_Witness ==
    /\ EndsWith(hist.recent, <<"updateForces", "updateAcceleration">>)
    /\ Moving(velocity)
    /\ Moving(acceleration)

\* C10: the globals ballArea and spinVector stay 0 and (0, 0, 0) in every
\* state, main having run or not; so for a ball in flight
\* updateMagnusForce stores the zero vector and updateDragForce a force of
\* magnitude 0.
C10_GlobalsNeverAssigned ==
    /\ ballArea = Zero
    /\ spinVector = ZeroVector
    /\ (LastCall \in {"updateMagnusForce", "updateForces"} /\ Moving(velocity))
           => magnusForce = ZeroVector
    /\ (LastCall \in {"updateDragForce", "updateForces"} /\ Moving(velocity))
           => vectorMagnitude(dragForce) = Zero

\* main has set its locals, and the forces were updated in flight
C10_Witness ==
    /\ frame.ran
    /\ frame.ballArea # Zero
    /\ LastCall = "updateForces"
    /\ Moving(velocity)

(***************************************************************************)
(* Properties of SumCode.c, checked under ShotSpec                         *)
(***************************************************************************)
Called == shot.path # "none"

\* the body of calculateShotForce ran: the call got past the early return
BodyRan == shot.path \in {"degenerate", "normal"}

Fabs(a) == IF Lt(a, Zero) THEN Neg(a) ELSE a

\* C1: with contactTime > 0, a call at a time before 0 or after contactTime
\* returns exactly 0 through the early return, whatever the other
\* arguments are.
C1_ZeroOutsideContact ==
    (/\ Called
     /\ Gt(shot.args.contactTime, Zero)
     /\ \/ Lt(shot.args.currentTime, Zero)
        \/ Gt(shot.args.currentTime, shot.args.contactTime))
        => /\ shot.path = "outside"
           /\ shot.ret = Zero

\* a call before the contact, with arguments that give a force inside it
C1_Witness ==
    /\ Called
    /\ Gt(shot.args.contactTime, Zero)
    /\ Lt(shot.args.currentTime, Zero)
    /\ Gt(shotImpulse(shot.args), Zero)
    /\ shot.ret = Zero

\* C4: a call with ballMass <= 0 or contactTime <= 0 is rejected before the
\* body of calculateShotForce runs.  The code tests neither, so the formula
\* is violated.
C4_BadConfigurationRejected ==
    BodyRan => /\ Gt(shot.args.ballMass, Zero)
               /\ Gt(shot.args.contactTime, Zero)

\* the number of intervals of the quadrature
IntegrationSteps == 32

\* calculateShotForce at the midpoint of interval i of n of the contact
ForceAtMidpoint(a, i, n) ==
    calculateShotForce(
        [a EXCEPT !.currentTime =
            Div(Mul(a.contactTime, FromInt(2 * i + 1)), FromInt(2 * n))])

\* the sum of the force at the midpoints of the k intervals from lo on
RECURSIVE MidpointSum(_, _, _, _)
MidpointSum(a, lo, k, n) ==
    IF k = 1 THEN ForceAtMidpoint(a, lo, n)
    ELSE LET h == k \div 2
             l == MidpointSum(a, lo, h, n)
             r == MidpointSum(a, lo + h, k - h, n)
         IN  After(<<l, r>>, Add(l, r))

\* the integral of the force over [0, contactTime], by the midpoint rule
ForceIntegral(a) ==
    Mul(MidpointSum(a, 0, IntegrationSteps, IntegrationSteps),
        Div(a.contactTime, FromInt(IntegrationSteps)))

\* the parameters a caller may pass
ValidArgs(a) == Gt(a.ballMass, Zero) /\ Gt(a.contactTime, Zero)

\* the quadrature resolves the Gaussian: an interval is at most sigma / 8
Resolved(a) ==
    ~Lt(Mul(shotSigma(a), FromInt(IntegrationSteps \div 8)), a.contactTime)

\* |x - y| <= |y| / 1000
WithinTolerance(x, y) == ~Gt(Fabs(Sub(x, y)), Mul(Dec(1, -3), Fabs(y)))

\* C5: for valid parameters with norm >= 1e-12, the integral of the force
\* over the contact is the impulse transferEfficiency * ballMass * v_muzzle
\* within a relative tolerance of 1e-3 (for the Gaussians that the
\* quadrature resolves).
C5_IntegralIsImpulse ==
    (/\ shot.path = "normal"
     /\ ValidArgs(shot.args)
     /\ Resolved(shot.args))
        => WithinTolerance(ForceIntegral(shot.args), shotImpulse(shot.args))

\* a call that delivers an impulse, integrated
C5_Witness ==
    /\ shot.path = "normal"
    /\ ValidArgs(shot.args)
    /\ Resolved(shot.args)
    /\ Gt(shotImpulse(shot.args), Zero)
    /\ Gt(ForceIntegral(shot.args), Zero)

====
